---- MODULE Spec2Model ----
(***************************************************************************)
(* Round-up investment calculator of src/src/services.py:                  *)
(* round_amount, calculate_investment and investment_bank.                 *)
(*                                                                         *)
(* Money.  The code computes on Python floats.  The model computes on      *)
(* exact decimals: an amount is an integer number of ticks, one tick being *)
(* 0.002 currency units (a fifth of a cent), so that amounts between two   *)
(* cents exist and round(x, 2) never meets a half-way case (whose outcome  *)
(* in Python depends on the binary representation of x).  A limit is an    *)
(* integer number of currency units, as in the code.                       *)
(*                                                                         *)
(* Strings.  A string given to datetime.strptime is a tuple of one-        *)
(* character strings; strptime is modelled by the regular expressions and  *)
(* the range checks of the standard library.                               *)
(***************************************************************************)
EXTENDS Integers, Sequences, FiniteSets, TLC

(***************************************************************************)
(* Bounds of the model.                                                    *)
(***************************************************************************)
MaxTx == 2            \* longest transaction list given to investment_bank
MaxAmountUnits == 3   \* largest amount given to the pure functions, in currency units
MaxLimit == 3         \* largest limit given to the pure functions

(***************************************************************************)
(* Units.                                                                  *)
(***************************************************************************)
TicksPerCent == 5                  \* resolution of an amount below the cent
CentsPerUnit == 100                \* round(x, 2) keeps 2 decimal places
Unit == CentsPerUnit * TicksPerCent   \* ticks in one currency unit

(***************************************************************************)
(* math.ceil(a / b) for b > 0, on exact values.                            *)
(***************************************************************************)
ceil(a, b) == -((-a) \div b)

\* a rounding that always goes up to the next cent
round2_up(x) == ceil(x, TicksPerCent) * TicksPerCent

(***************************************************************************)
(* round(x, 2): the nearest whole cent; a half-way case goes to the even   *)
(* cent (Python's rule).  x in ticks, result in ticks.                     *)
(***************************************************************************)
round2(x) ==
    LET q == x \div TicksPerCent
        r == x % TicksPerCent
    IN  IF 2 * r > TicksPerCent THEN (q + 1) * TicksPerCent
        ELSE IF 2 * r < TicksPerCent THEN q * TicksPerCent
        ELSE IF q % 2 = 0 THEN q * TicksPerCent
        ELSE (q + 1) * TicksPerCent

\* floor, plus one: goes past an amount that is already a multiple
round_amount_past(a, l) == ((a \div (l * Unit)) + 1) * l * Unit

(***************************************************************************)
(* round_amount(amount, limit) = math.ceil(amount / limit) * limit.        *)
(* amount in ticks, limit in currency units (> 0), result in ticks.        *)
(***************************************************************************)
round_amount(a, l) == ceil(a, l * Unit) * l * Unit

\* the gap as limit minus the remainder: limit for an exact multiple
calculate_investment_rem(a, l) == round2(l * Unit - (a % (l * Unit)))

\* the gap left unrounded
calculate_investment_raw(a, l) == round_amount(a, l) - a

(***************************************************************************)
(* calculate_investment(amount, limit) =                                   *)
(*     round(round_amount(amount, limit) - amount, 2).                     *)
(***************************************************************************)
calculate_investment(a, l) ==
    LET rounded == round_amount(a, l)
    IN  round2(rounded - a)

(***************************************************************************)
(* Strings: tuples of one-character strings.                               *)
(***************************************************************************)
Digits == {"0", "1", "2", "3", "4", "5", "6", "7", "8", "9"}

DigitVal(c) ==
    CASE c = "0" -> 0 [] c = "1" -> 1 [] c = "2" -> 2 [] c = "3" -> 3
      [] c = "4" -> 4 [] c = "5" -> 5 [] c = "6" -> 6 [] c = "7" -> 7
      [] c = "8" -> 8 [] c = "9" -> 9

\* the character of s at position p, or "" past the end
At(s, p) == IF p >= 1 /\ p <= Len(s) THEN s[p] ELSE ""

\* the number written by the n digits of s from position p
Number(s, p, n) ==
    LET RECURSIVE num(_, _)
        num(k, acc) == IF k = n THEN acc
                       ELSE num(k + 1, 10 * acc + DigitVal(s[p + k]))
    IN  num(0, 0)

(***************************************************************************)
(* The directives of datetime.strptime as the standard library matches     *)
(* them: the number of characters each takes at position p, 0 for no match.*)
(*   %Y  \d\d\d\d                                                          *)
(*   %m  1[0-2]|0[1-9]|[1-9]                                               *)
(*   %d  3[0-1]|[1-2]\d|0[1-9]|[1-9]| [1-9]                                *)
(***************************************************************************)
MatchY(s, p) ==
    IF \A k \in 0 .. 3 : At(s, p + k) \in Digits THEN 4 ELSE 0

MatchM(s, p) ==
    IF At(s, p) = "1" /\ At(s, p + 1) \in {"0", "1", "2"} THEN 2
    ELSE IF At(s, p) = "0" /\ At(s, p + 1) \in Digits \ {"0"} THEN 2
    ELSE IF At(s, p) \in Digits \ {"0"} THEN 1
    ELSE 0

MatchD(s, p) ==
    IF At(s, p) = "3" /\ At(s, p + 1) \in {"0", "1"} THEN 2
    ELSE IF At(s, p) \in {"1", "2"} /\ At(s, p + 1) \in Digits THEN 2
    ELSE IF At(s, p) = "0" /\ At(s, p + 1) \in Digits \ {"0"} THEN 2
    ELSE IF At(s, p) \in Digits \ {"0"} THEN 1
    ELSE IF At(s, p) = " " /\ At(s, p + 1) \in Digits \ {"0"} THEN 2
    ELSE 0

\* the value of a %d token of n characters at p (a leading blank is skipped)
DayVal(s, p, n) ==
    IF n = 2 /\ s[p] = " " THEN DigitVal(s[p + 1]) ELSE Number(s, p, n)

IsLeap(y) == (y % 4 = 0) /\ ((y % 100 # 0) \/ (y % 400 = 0))

DaysInMonth(y, m) ==
    IF m = 2 THEN (IF IsLeap(y) THEN 29 ELSE 28)
    ELSE IF m \in {4, 6, 9, 11} THEN 30
    ELSE 31

\* what strptime gives for a string that does not parse: ValueError is raised
NoDate == [ok |-> FALSE, year |-> 0, month |-> 0, day |-> 0]

(***************************************************************************)
(* datetime.strptime(s, "%Y-%m-%d"); the day must exist in the month.      *)
(***************************************************************************)
strptime_Ymd(s) ==
    LET ny == MatchY(s, 1)
        nm == MatchM(s, 6)
        pd == 7 + nm
        nd == MatchD(s, pd)
    IN  IF ny = 0 \/ At(s, 5) # "-" \/ nm = 0 THEN NoDate
        ELSE IF At(s, 6 + nm) # "-" \/ nd = 0 THEN NoDate
        ELSE IF Len(s) # pd + nd - 1 THEN NoDate
        ELSE IF Number(s, 1, 4) < 1 THEN NoDate
        ELSE IF DayVal(s, pd, nd) > DaysInMonth(Number(s, 1, 4), Number(s, 6, nm))
             THEN NoDate
        ELSE [ok |-> TRUE, year |-> Number(s, 1, 4),
              month |-> Number(s, 6, nm), day |-> DayVal(s, pd, nd)]

(***************************************************************************)
(* datetime.strptime(s, "%Y-%m"): the pattern must match at the start and  *)
(* take the whole string; the day defaults to 1; the year must be >= 1.    *)
(***************************************************************************)
strptime_Ym(s) ==
    LET ny == MatchY(s, 1)
        nm == MatchM(s, 6)
    IN  IF ny = 0 \/ At(s, 5) # "-" \/ nm = 0 THEN NoDate
        ELSE IF Len(s) # 5 + nm THEN NoDate
        ELSE IF Number(s, 1, 4) < 1 THEN NoDate
        ELSE [ok |-> TRUE, year |-> Number(s, 1, 4),
              month |-> Number(s, 6, nm), day |-> 1]

(***************************************************************************)
(* datetime.strptime(s, "%Y-%m-%d %H:%M:%S").  The blank of the format     *)
(* takes one or more blanks; the other tokens are                          *)
(*   %H  2[0-3]|[0-1]\d|\d                                                 *)
(*   %M  [0-5]\d|\d                                                        *)
(*   %S  6[0-1]|[0-5]\d|\d     (datetime itself refuses a second > 59)     *)
(***************************************************************************)
MatchH(s, p) ==
    IF At(s, p) = "2" /\ At(s, p + 1) \in {"0", "1", "2", "3"} THEN 2
    ELSE IF At(s, p) \in {"0", "1"} /\ At(s, p + 1) \in Digits THEN 2
    ELSE IF At(s, p) \in Digits THEN 1
    ELSE 0

MatchMin(s, p) ==
    IF At(s, p) \in {"0", "1", "2", "3", "4", "5"} /\ At(s, p + 1) \in Digits
    THEN 2
    ELSE IF At(s, p) \in Digits THEN 1
    ELSE 0

MatchS(s, p) ==
    IF At(s, p) = "6" /\ At(s, p + 1) \in {"0", "1"} THEN 2
    ELSE MatchMin(s, p)

\* the number of blanks of s from position p on
RECURSIVE Blanks(_, _)
Blanks(s, p) == IF At(s, p) = " " THEN 1 + Blanks(s, p + 1) ELSE 0

NoDatetime ==
    [ok |-> FALSE, year |-> 0, month |-> 0, day |-> 0, hour |-> 0,
     minute |-> 0, second |-> 0]

strptime_YmdHMS(s) ==
    LET ny == MatchY(s, 1)
        nm == MatchM(s, 6)
        pd == 7 + nm
        nd == MatchD(s, pd)
        nb == Blanks(s, pd + nd)
        ph == pd + nd + nb
        nh == MatchH(s, ph)
        pm == ph + nh + 1
        nmin == MatchMin(s, pm)
        ps == pm + nmin + 1
        ns == MatchS(s, ps)
    IN  IF ny = 0 \/ At(s, 5) # "-" \/ nm = 0 THEN NoDatetime
        ELSE IF At(s, 6 + nm) # "-" \/ nd = 0 \/ nb = 0 THEN NoDatetime
        ELSE IF nh = 0 \/ At(s, ph + nh) # ":" \/ nmin = 0 THEN NoDatetime
        ELSE IF At(s, pm + nmin) # ":" \/ ns = 0 THEN NoDatetime
        ELSE IF Len(s) # ps + ns - 1 THEN NoDatetime
        ELSE IF Number(s, 1, 4) < 1 THEN NoDatetime
        ELSE IF DayVal(s, pd, nd) > DaysInMonth(Number(s, 1, 4), Number(s, 6, nm))
             THEN NoDatetime
        ELSE IF Number(s, ps, ns) > 59 THEN NoDatetime
        ELSE [ok |-> TRUE, year |-> Number(s, 1, 4),
              month |-> Number(s, 6, nm), day |-> DayVal(s, pd, nd),
              hour |-> Number(s, ph, nh), minute |-> Number(s, pm, nmin),
              second |-> Number(s, ps, ns)]

(***************************************************************************)
(* Python values held by a transaction dict: a float or a str.            *)
(***************************************************************************)
PyFloat(n) == [kind |-> "float", num |-> n, text |-> <<>>]
PyStr(t) == [kind |-> "str", num |-> 0, text |-> t]

\* the keys investment_bank reads (transliterated: the module is ASCII)
DateKey == "Data operatsii"
AmountKey == "Summa operatsii"

(***************************************************************************)
(* float(v).  A float is itself.  A str converts when it is a numeral; of  *)
(* the numerals Python accepts the model writes only unsigned whole        *)
(* numbers, every other str of the model being non-numeric: ValueError.    *)
(***************************************************************************)
float(v) ==
    IF v.kind = "float" THEN [ok |-> TRUE, value |-> v.num]
    ELSE IF Len(v.text) > 0 /\ \A k \in 1 .. Len(v.text) : v.text[k] \in Digits
         THEN [ok |-> TRUE, value |-> Number(v.text, 1, Len(v.text)) * Unit]
    ELSE [ok |-> FALSE, value |-> 0]

VARIABLES
    month,              \* argument: the month string
    transactions,       \* argument: the list of transaction dicts
    limit,              \* argument: the rounding limit
    pc,                 \* where the call of investment_bank stands
    target_date,        \* local: the parsed month
    idx,                \* position of the for loop in transactions
    total_investment,   \* local: the running total, in ticks
    examined,           \* the positions the loop has read, in order
    error,              \* the exception in flight or raised, "" for none
    result,             \* <<v>> once v is returned, <<>> before and on failure
    c_amount, c_limit, c_pc, rounded_out, investment_out,
    run,                \* which call of a caller that calls twice this is
    prev,               \* what that caller's first call gave
    callers,            \* the calls of the concurrent callers, one frame each
    totals,             \* where the running totals of those calls are kept
    operations,         \* main.py: the table of operations, once loaded
    failed_check,       \* which validation raised: "month", "limit", "" for none
    \* views.py, generate_report
    datetime_str,       \* argument: the date and time, a string
    v_env,              \* the data file and the answers of the two APIs
    v_pc,               \* where the call of generate_report stands
    input_datetime,     \* local: the parsed date and time
    report,             \* local: the dict of the report, as far as built
    v_error,            \* the exception raised, "" for none
    v_result,           \* <<d>> once the dict d is returned
    \* utils.py, get_stock_prices
    stocks,             \* argument: the symbols asked for
    s_responses,        \* what the API answers to each request, by position
    s_pc,               \* where the call of get_stock_prices stands
    s_idx,              \* position of the for loop in stocks
    prices,             \* local: the entries collected so far
    s_error,            \* the exception raised, "" for none
    s_result,           \* <<l>> once the list l is returned
    \* reports.py, save_report
    filename,           \* the decorator's argument, None or a str
    w_env,              \* the wrapped function, the clock and the disk
    fs,                 \* the file system: the reports directory, its files
    fs_before,          \* the file system when the wrapper was called
    w_pc,               \* where the call of wrapper stands
    w_value,            \* local result: what the wrapped function returned
    report_name,        \* local: the name of the report file
    w_error,            \* the exception raised, "" for none
    w_result            \* <<v>> once the wrapper has returned v

\* the variables of views.py, utils.py and reports.py
vvars == <<datetime_str, v_env, v_pc, input_datetime, report, v_error, v_result>>
svars == <<stocks, s_responses, s_pc, s_idx, prices, s_error, s_result>>
rvars == <<filename, w_env, fs, fs_before, w_pc, w_value, report_name, w_error,
           w_result>>
wvars == <<vvars, svars, rvars>>

yvars_core == <<run, prev, callers, totals, operations>>
yvars == <<yvars_core, wvars>>
xvars == <<yvars, failed_check>>

\* no call of generate_report
VIdle ==
    /\ datetime_str = <<>> /\ v_env = <<>> /\ v_pc = "idle"
    /\ input_datetime = NoDatetime /\ report = <<>> /\ v_error = ""
    /\ v_result = <<>>

\* no call of get_stock_prices
SIdle ==
    /\ stocks = <<>> /\ s_responses = <<>> /\ s_pc = "idle" /\ s_idx = 0
    /\ prices = <<>> /\ s_error = "" /\ s_result = <<>>

\* no call of a function wrapped by save_report
RIdle ==
    /\ filename = <<>> /\ w_env = <<>> /\ fs = <<>> /\ fs_before = <<>>
    /\ w_pc = "idle" /\ w_value = <<>> /\ report_name = <<>> /\ w_error = ""
    /\ w_result = <<>>

WIdle == VIdle /\ SIdle /\ RIdle

\* what a call gave: how it ended, with which exception, with which number
Outcome(p, e, r) == [pc |-> p, error |-> e, result |-> r]
NoOutcome == Outcome("", "", <<>>)

\* the variables of the other callers, at rest
YIdle ==
    /\ run = 1 /\ prev = NoOutcome
    /\ callers = <<>> /\ totals = <<>> /\ operations = <<>>
    /\ failed_check = ""

XIdle == YIdle /\ WIdle

ivars == <<month, transactions, limit, pc, target_date, idx, total_investment,
           examined, error, result>>

cvars == <<c_amount, c_limit, c_pc, rounded_out, investment_out>>

\* no call of investment_bank, of round_amount or of calculate_investment
CoreIdle ==
    /\ month = <<>> /\ transactions = <<>> /\ limit = 1 /\ pc = "idle"
    /\ target_date = NoDate /\ idx = 0 /\ total_investment = 0
    /\ examined = <<>> /\ error = "" /\ result = <<>>
    /\ c_amount = 0 /\ c_limit = 1 /\ c_pc = "idle"
    /\ rounded_out = 0 /\ investment_out = 0
    /\ YIdle

(***************************************************************************)
(* The pure functions applied to every input of a bounded range.           *)
(***************************************************************************)
CalcAmounts == (-(2 * Unit)) .. (MaxAmountUnits * Unit)
CalcLimits == 1 .. MaxLimit

CalcInit ==
    /\ month = <<>> /\ transactions = <<>> /\ limit = 1 /\ pc = "idle"
    /\ target_date = NoDate /\ idx = 0 /\ total_investment = 0
    /\ examined = <<>> /\ error = "" /\ result = <<>>
    /\ XIdle
    /\ c_amount \in CalcAmounts
    /\ c_limit \in CalcLimits
    /\ c_pc = "start"
    /\ rounded_out = 0
    /\ investment_out = 0

CallRoundAmount ==
    /\ c_pc = "start"
    /\ rounded_out' = round_amount(c_amount, c_limit)
    /\ c_pc' = "rounded"
    /\ UNCHANGED <<c_amount, c_limit, investment_out>>
    /\ UNCHANGED ivars
    /\ UNCHANGED xvars

CallCalculateInvestment ==
    /\ c_pc = "rounded"
    /\ investment_out' = calculate_investment(c_amount, c_limit)
    /\ c_pc' = "calculated"
    /\ UNCHANGED <<c_amount, c_limit, rounded_out>>
    /\ UNCHANGED ivars
    /\ UNCHANGED xvars

CalcNext == CallRoundAmount \/ CallCalculateInvestment

SpecCalc == CalcInit /\ [][CalcNext]_<<ivars, cvars, xvars>>

(***************************************************************************)
(* The inputs given to investment_bank.                                    *)
(***************************************************************************)
S_2024_01 == <<"2", "0", "2", "4", "-", "0", "1">>
S_2024 == <<"2", "0", "2", "4">>
S_2024_13 == <<"2", "0", "2", "4", "-", "1", "3">>
S_24_01 == <<"2", "4", "-", "0", "1">>
S_invalid == <<"i", "n", "v", "a", "l", "i", "d">>

S_2024_01_15 == <<"2", "0", "2", "4", "-", "0", "1", "-", "1", "5">>
S_2024_02_16 == <<"2", "0", "2", "4", "-", "0", "2", "-", "1", "6">>
S_2023_01_15 == <<"2", "0", "2", "3", "-", "0", "1", "-", "1", "5">>
S_2024_01_32 == <<"2", "0", "2", "4", "-", "0", "1", "-", "3", "2">>
S_abc == <<"a", "b", "c">>

MonthStrings == {S_2024_01, S_2024, S_2024_13, S_24_01, S_invalid}
DateStrings == {S_2024_01_15, S_2024_02_16, S_2023_01_15, S_2024_01_32}
Limits == {-1, 0, 1, 2}

\* -0.30, 0, 0.002, 0.45, 1.00 in ticks, and a str that is no number
AmountValues ==
    {PyFloat(n) : n \in {-150, 0, 1, 225, Unit}} \cup {PyStr(S_abc)}

\* a dict with both keys
Rec(d, a) == [k \in {DateKey, AmountKey} |-> IF k = DateKey THEN PyStr(d) ELSE a]

\* the records of the lists: every amount on a date of the target month,
\* every date with a spend, a malformed amount on another month's date, a
\* refund on a date that does not exist, and dicts
\* that lack a key
Records ==
    {Rec(S_2024_01_15, a) : a \in AmountValues}
    \cup {Rec(d, PyFloat(225)) : d \in DateStrings}
    \cup {Rec(S_2024_02_16, PyStr(S_abc)), Rec(S_2024_01_32, PyFloat(-150))}
    \cup {[k \in {DateKey} |-> PyStr(d)] : d \in {S_2024_01_15, S_2024_02_16}}
    \cup {[k \in {AmountKey} |-> PyFloat(225)]}

TransactionLists == UNION {[1 .. n -> Records] : n \in 0 .. MaxTx}

Init ==
    /\ month \in MonthStrings
    /\ transactions \in TransactionLists
    /\ limit \in Limits
    /\ pc = "start"
    /\ target_date = NoDate
    /\ idx = 0
    /\ total_investment = 0
    /\ examined = <<>>
    /\ error = ""
    /\ result = <<>>
    /\ c_amount = 0 /\ c_limit = 1 /\ c_pc = "idle"
    /\ rounded_out = 0 /\ investment_out = 0
    /\ XIdle

\* an exception of kind e leaves the try block of investment_bank
Raise(e) ==
    /\ error' = e
    /\ pc' = IF e \in {"ValueError", "KeyError"} THEN "except" ELSE "raised"

\* the limit checked first, the month parsed after it
ParseMonth_limit_first ==
    /\ pc = "start"
    /\ LET parsed == strptime_Ym(month)
       IN  IF limit <= 0
           THEN /\ Raise("ValueError")
                /\ failed_check' = "limit"
                /\ UNCHANGED target_date
           ELSE IF parsed.ok
           THEN /\ target_date' = parsed
                /\ pc' = "check_limit"
                /\ UNCHANGED <<error, failed_check>>
           ELSE /\ Raise("ValueError")
                /\ failed_check' = "month"
                /\ UNCHANGED target_date
    /\ UNCHANGED <<month, transactions, limit, idx, total_investment, examined,
                   result>>
    /\ UNCHANGED cvars
    /\ UNCHANGED yvars

\* line 55: target_date = datetime.strptime(month, "%Y-%m")
ParseMonth ==
    /\ pc = "start"
    /\ LET parsed == strptime_Ym(month)
       IN  IF parsed.ok
           THEN /\ target_date' = parsed
                /\ pc' = "check_limit"
                /\ UNCHANGED <<error, failed_check>>
           ELSE /\ Raise("ValueError")
                /\ failed_check' = "month"
                /\ UNCHANGED target_date
    /\ UNCHANGED <<month, transactions, limit, idx, total_investment, examined,
                   result>>
    /\ UNCHANGED cvars
    /\ UNCHANGED yvars

\* a limit check that lets zero through
BadLimit_negative(l) == l < 0

\* line 59: limit <= 0
BadLimit(l) == l <= 0

\* the total kept from an earlier call, as a module-level accumulator would
InitialTotal_kept(old) == old

\* line 62: total_investment = 0.0, whatever the name held before
InitialTotal(old) == 0

\* lines 59-62: the limit check, then total_investment = 0.0
CheckLimit ==
    /\ pc = "check_limit"
    /\ IF BadLimit(limit)
       THEN /\ Raise("ValueError")
            /\ failed_check' = "limit"
            /\ UNCHANGED <<idx, total_investment>>
       ELSE /\ total_investment' = InitialTotal(total_investment)
            /\ idx' = 1
            /\ pc' = "loop"
            /\ UNCHANGED <<error, failed_check>>
    /\ UNCHANGED <<month, transactions, limit, target_date, examined, result>>
    /\ UNCHANGED cvars
    /\ UNCHANGED yvars

\* the month compared without the year
SameMonth_no_year(trans_date, target) == trans_date.month = target.month

\* line 67: trans_date.year == target_date.year and
\*          trans_date.month == target_date.month
SameMonth(trans_date, target) ==
    trans_date.year = target.year /\ trans_date.month = target.month

\* every amount but zero taken for a spend
IsSpend_nonzero(amount) == amount # 0

\* line 71: amount > 0
IsSpend(amount) == amount > 0

\* the total overwritten instead of added to
Accumulate_assign(total, investment) == investment

\* the investment taken off the total
Accumulate_subtract(total, investment) == total - investment

\* line 73: total_investment += investment
Accumulate(total, investment) == total + investment

\* a date that does not parse passed over instead of raised
DateRaises_lenient(transaction) ==
    IF DateKey \notin DOMAIN transaction THEN "KeyError" ELSE ""

\* line 66: the exception that reading and parsing the date raises, "" for
\* none: KeyError for a missing key, TypeError for a value that is no str,
\* ValueError for a str that strptime does not take
DateRaises(transaction) ==
    IF DateKey \notin DOMAIN transaction THEN "KeyError"
    ELSE IF transaction[DateKey].kind # "str" THEN "TypeError"
    ELSE IF ~strptime_Ymd(transaction[DateKey].text).ok THEN "ValueError"
    ELSE ""

\* the amount read and converted before the month is compared
AmountRaises_eager(transaction, in_month) ==
    IF AmountKey \notin DOMAIN transaction THEN "KeyError"
    ELSE IF ~float(transaction[AmountKey]).ok THEN "ValueError"
    ELSE ""

\* line 68: the exception that reading and converting the amount raises, ""
\* for none; the line is inside the month test of line 67, so that the
\* amount of a transaction of another month is never read
AmountRaises(transaction, in_month) ==
    IF ~in_month THEN ""
    ELSE IF AmountKey \notin DOMAIN transaction THEN "KeyError"
    ELSE IF ~float(transaction[AmountKey]).ok THEN "ValueError"
    ELSE ""

\* what one pass of the loop body does with a transaction, given the total
\* so far: the exception it raises ("" for none) and the new total
LoopBody(transaction, target, lim, total) ==
    IF DateRaises(transaction) # ""
    THEN [raises |-> DateRaises(transaction), total |-> total]
    ELSE LET trans_date == strptime_Ymd(transaction[DateKey].text)
             in_month == trans_date.ok /\ SameMonth(trans_date, target)
         IN  IF AmountRaises(transaction, in_month) # ""
             THEN [raises |-> AmountRaises(transaction, in_month),
                   total |-> total]
             ELSE IF ~in_month
             THEN [raises |-> "", total |-> total]
             ELSE LET amount == float(transaction[AmountKey])
                  IN  IF IsSpend(amount.value)
                      THEN [raises |-> "",
                            total |-> Accumulate(total,
                                        calculate_investment(amount.value, lim))]
                      ELSE [raises |-> "", total |-> total]

\* the loop staying on the transaction it has just read
NextIndex_stuck(i) == i

\* line 64: the for loop goes on to the next transaction of the list
NextIndex(i) == i + 1

\* the loop writing the converted amount back into the caller's dict
LoopStep_storing ==
    /\ pc = "loop"
    /\ idx <= Len(transactions)
    /\ examined' = Append(examined, idx)
    /\ LET out == LoopBody(transactions[idx], target_date, limit,
                           total_investment)
       IN  IF out.raises = ""
           THEN /\ total_investment' = out.total
                /\ idx' = NextIndex(idx)
                /\ UNCHANGED <<pc, error>>
           ELSE /\ Raise(out.raises)
                /\ UNCHANGED <<idx, total_investment>>
    /\ transactions' =
          IF AmountKey \in DOMAIN transactions[idx]
          THEN [transactions EXCEPT ![idx][AmountKey] =
                    PyFloat(float(transactions[idx][AmountKey]).value)]
          ELSE transactions
    /\ UNCHANGED <<month, limit, target_date, result>>
    /\ UNCHANGED cvars
    /\ UNCHANGED xvars

\* lines 64-74: the loop takes the next transaction
LoopStep ==
    /\ pc = "loop"
    /\ idx <= Len(transactions)
    /\ examined' = Append(examined, idx)
    /\ LET out == LoopBody(transactions[idx], target_date, limit,
                           total_investment)
       IN  IF out.raises = ""
           THEN /\ total_investment' = out.total
                /\ idx' = NextIndex(idx)
                /\ UNCHANGED <<pc, error>>
           ELSE /\ Raise(out.raises)
                /\ UNCHANGED <<idx, total_investment>>
    /\ UNCHANGED <<month, transactions, limit, target_date, result>>
    /\ UNCHANGED cvars
    /\ UNCHANGED xvars

\* a zero total given back as no number at all
ReturnValue_falsy(total) == IF total = 0 THEN <<>> ELSE <<round2(total)>>

\* line 76: the value of round(total_investment, 2), as returned
ReturnValue(total) == <<round2(total)>>

\* line 76: return round(total_investment, 2)
Return ==
    /\ pc = "loop"
    /\ idx > Len(transactions)
    /\ result' = ReturnValue(total_investment)
    /\ pc' = "returned"
    /\ UNCHANGED <<month, transactions, limit, target_date, idx,
                   total_investment, examined, error>>
    /\ UNCHANGED cvars
    /\ UNCHANGED xvars

\* a handler that logs the exception and gives the total so far back
Handle_partial(e) ==
    [pc |-> "returned", error |-> "", result |-> <<round2(total_investment)>>]

\* a handler that logs the exception and gives 0.0 back
Handle_swallow(e) == [pc |-> "returned", error |-> "", result |-> <<0>>]

\* what the handler of lines 78-80 does with the exception it caught: it
\* logs it and raises it again
Handle(e) == [pc |-> "raised", error |-> e, result |-> <<>>]

\* lines 78-80: except (ValueError, KeyError): log, raise
Except ==
    /\ pc = "except"
    /\ LET h == Handle(error)
       IN  /\ pc' = h.pc
           /\ error' = h.error
           /\ result' = h.result
    /\ UNCHANGED <<month, transactions, limit, target_date, idx,
                   total_investment, examined>>
    /\ UNCHANGED cvars
    /\ UNCHANGED xvars

Next == ParseMonth \/ CheckLimit \/ LoopStep \/ Return \/ Except

vars == <<month, transactions, limit, pc, target_date, idx, total_investment,
          examined, error, result, c_amount, c_limit, c_pc, rounded_out,
          investment_out, run, prev, callers, totals, operations,
          failed_check, datetime_str, v_env, v_pc, input_datetime, report,
          v_error, v_result, stocks, s_responses, s_pc, s_idx, prices,
          s_error, s_result, filename, w_env, fs, fs_before, w_pc, w_value,
          report_name, w_error, w_result>>

Spec == Init /\ [][Next]_vars

\* the calls whose termination is checked: one valid and one invalid month,
\* a bad and a good limit, lists of records of every kind the loop tells apart
LiveRecords ==
    {[k \in {DateKey, AmountKey} |->
        IF k = DateKey THEN PyStr(S_2024_01_15) ELSE PyFloat(225)],
     [k \in {DateKey, AmountKey} |->
        IF k = DateKey THEN PyStr(S_2024_01_15) ELSE PyFloat(-150)],
     [k \in {DateKey, AmountKey} |->
        IF k = DateKey THEN PyStr(S_2024_02_16) ELSE PyStr(S_abc)],
     [k \in {DateKey, AmountKey} |->
        IF k = DateKey THEN PyStr(S_2024_01_32) ELSE PyFloat(225)],
     [k \in {DateKey} |-> PyStr(S_2024_01_15)],
     [k \in {AmountKey} |-> PyFloat(225)]}

LiveInit ==
    /\ month \in {S_2024_01, S_2024_13}
    /\ transactions \in UNION {[1 .. n -> LiveRecords] : n \in 0 .. MaxTx}
    /\ limit \in {0, 1}
    /\ pc = "start"
    /\ target_date = NoDate
    /\ idx = 0
    /\ total_investment = 0
    /\ examined = <<>>
    /\ error = ""
    /\ result = <<>>
    /\ c_amount = 0 /\ c_limit = 1 /\ c_pc = "idle"
    /\ rounded_out = 0 /\ investment_out = 0
    /\ XIdle

\* a caller that has had the outcome of its first call calls again with the
\* same arguments: a new frame, whose locals are bound by the call itself
\* (target_date at line 55, total_investment at line 62) and until then hold
\* here what the names held last
CallAgain ==
    /\ pc \in {"returned", "raised"}
    /\ run = 1
    /\ prev' = Outcome(pc, error, result)
    /\ run' = 2
    /\ pc' = "start"
    /\ idx' = 0
    /\ examined' = <<>>
    /\ error' = ""
    /\ result' = <<>>
    /\ failed_check' = ""
    /\ UNCHANGED <<month, transactions, limit, target_date, total_investment>>
    /\ UNCHANGED cvars
    /\ UNCHANGED <<callers, totals, operations, wvars>>

RerunNext == Next \/ CallAgain

SpecRerun == LiveInit /\ [][RerunNext]_vars

\* the calls whose order is changed: a valid month, a positive limit, lists
\* of well-formed records with amounts in whole cents (spends of the month
\* with different contributions, a refund, a spend of another month) and of
\* two malformed ones
PermRecords ==
    {Rec(S_2024_01_15, PyFloat(225)), Rec(S_2024_01_15, PyFloat(Unit)),
     Rec(S_2024_01_15, PyFloat(-150)), Rec(S_2024_02_16, PyFloat(225)),
     Rec(S_2024_01_32, PyFloat(225)), [k \in {DateKey} |-> PyStr(S_2024_01_15)]}

PermInit ==
    /\ month \in {S_2024_01}
    /\ transactions \in UNION {[1 .. n -> PermRecords] : n \in 0 .. MaxTx}
    /\ limit \in {1, 2}
    /\ pc = "start"
    /\ target_date = NoDate
    /\ idx = 0
    /\ total_investment = 0
    /\ examined = <<>>
    /\ error = ""
    /\ result = <<>>
    /\ c_amount = 0 /\ c_limit = 1 /\ c_pc = "idle"
    /\ rounded_out = 0 /\ investment_out = 0
    /\ XIdle

\* the list t in the order p, a permutation of its positions
Permuted(t, p) == [k \in 1 .. Len(t) |-> t[p[k]]]

\* a caller that has had the outcome of a call calls again with the same
\* month and limit and the same transactions in another order
CallPermuted ==
    /\ pc \in {"returned", "raised"}
    /\ run = 1
    /\ \E p \in Permutations(1 .. Len(transactions)) :
          transactions' = Permuted(transactions, p)
    /\ prev' = Outcome(pc, error, result)
    /\ run' = 2
    /\ pc' = "start"
    /\ idx' = 0
    /\ examined' = <<>>
    /\ error' = ""
    /\ result' = <<>>
    /\ failed_check' = ""
    /\ UNCHANGED <<month, limit, target_date, total_investment>>
    /\ UNCHANGED cvars
    /\ UNCHANGED <<callers, totals, operations, wvars>>

PermNext == Next \/ CallPermuted

SpecPerm == PermInit /\ [][PermNext]_vars

(***************************************************************************)
(* Concurrent callers.  Each caller runs investment_bank in a frame of its *)
(* own: the arguments and the locals of lines 55-76.                       *)
(***************************************************************************)
MaxConcTx == 1        \* longest list a concurrent caller passes
Callers == {1, 2}

\* the frame of a call that has not started
Frame(m, ts, l) ==
    [month |-> m, transactions |-> ts, limit |-> l, pc |-> "start",
     target_date |-> NoDate, idx |-> 0, error |-> "", result |-> <<>>]

\* the frame after an exception of kind e has left the try block
FrameRaise(f, e) ==
    [f EXCEPT !.error = e,
              !.pc = IF e \in {"ValueError", "KeyError"} THEN "except"
                     ELSE "raised"]

\* one step of investment_bank on the frame f whose running total is total:
\* the frame and the total after it (lines 55, 59-62, 64-74, 76, 78-80)
StepOf(f, total) ==
    CASE f.pc = "start" ->
           LET parsed == strptime_Ym(f.month)
           IN  IF parsed.ok
               THEN [frame |-> [f EXCEPT !.target_date = parsed,
                                         !.pc = "check_limit"],
                     total |-> total]
               ELSE [frame |-> FrameRaise(f, "ValueError"), total |-> total]
      [] f.pc = "check_limit" ->
           IF BadLimit(f.limit)
           THEN [frame |-> FrameRaise(f, "ValueError"), total |-> total]
           ELSE [frame |-> [f EXCEPT !.idx = 1, !.pc = "loop"],
                 total |-> InitialTotal(total)]
      [] f.pc = "loop" /\ f.idx <= Len(f.transactions) ->
           LET out == LoopBody(f.transactions[f.idx], f.target_date, f.limit,
                               total)
           IN  IF out.raises = ""
               THEN [frame |-> [f EXCEPT !.idx = NextIndex(f.idx)],
                     total |-> out.total]
               ELSE [frame |-> FrameRaise(f, out.raises), total |-> total]
      [] f.pc = "loop" /\ f.idx > Len(f.transactions) ->
           [frame |-> [f EXCEPT !.result = ReturnValue(total),
                                !.pc = "returned"],
            total |-> total]
      [] f.pc = "except" ->
           LET h == Handle(f.error)
           IN  [frame |-> [f EXCEPT !.pc = h.pc, !.error = h.error,
                                    !.result = h.result],
                total |-> total]

\* one name for the running total of every call, as a module-level variable
TotalSlot_shared(c) == 1

\* line 62: total_investment is a local of the call: each caller's frame
\* has its own
TotalSlot(c) == c

\* the records and the arguments the concurrent callers pass
ConcRecords ==
    {Rec(S_2024_01_15, PyFloat(225)), Rec(S_2024_01_15, PyFloat(1)),
     Rec(S_2024_02_16, PyFloat(225)), [k \in {AmountKey} |-> PyFloat(225)]}

ConcFrames ==
    {Frame(m, ts, l) :
        m \in {S_2024_01, S_2024_13},
        ts \in UNION {[1 .. n -> ConcRecords] : n \in 0 .. MaxConcTx},
        l \in {0, 1}}

ConcInit ==
    /\ callers \in [Callers -> ConcFrames]
    /\ totals = [c \in Callers |-> 0]
    /\ run = 1 /\ prev = NoOutcome /\ operations = <<>>
    /\ failed_check = "" /\ WIdle
    /\ month = <<>> /\ transactions = <<>> /\ limit = 1 /\ pc = "idle"
    /\ target_date = NoDate /\ idx = 0 /\ total_investment = 0
    /\ examined = <<>> /\ error = "" /\ result = <<>>
    /\ c_amount = 0 /\ c_limit = 1 /\ c_pc = "idle"
    /\ rounded_out = 0 /\ investment_out = 0

\* caller c takes the next step of its call
ConcStep(c) ==
    /\ callers[c].pc \in {"start", "check_limit", "loop", "except"}
    /\ LET out == StepOf(callers[c], totals[TotalSlot(c)])
       IN  /\ callers' = [callers EXCEPT ![c] = out.frame]
           /\ totals' = [totals EXCEPT ![TotalSlot(c)] = out.total]
    /\ UNCHANGED <<ivars, cvars, run, prev, operations, wvars, failed_check>>

ConcNext == \E c \in Callers : ConcStep(c)

SpecConc == ConcInit /\ [][ConcNext]_vars

(***************************************************************************)
(* main.py: load_operations and the investment step of                     *)
(* run_financial_analysis.  A table is its set of columns and its rows,    *)
(* each row a function of the columns.                                     *)
(***************************************************************************)
MaxRows == 2          \* most rows of the sheet of operations

\* the columns load_operations requires (transliterated) and their new names
PayDateKey == "Data platezha"
PayAmountKey == "Summa platezha"
CardKey == "Nomer karty"
CategoryKey == "Kategoriya"
DescriptionKey == "Opisanie"

\* lines 61-67: column_mapping
column_mapping ==
    [c \in {PayDateKey, PayAmountKey, CardKey, CategoryKey, DescriptionKey} |->
        CASE c = PayDateKey -> "date"
          [] c = PayAmountKey -> "amount"
          [] c = CardKey -> "card"
          [] c = CategoryKey -> "category"
          [] c = DescriptionKey -> "description"]

\* a pandas Timestamp, as pd.to_datetime makes of a date
PyTimestamp == [kind |-> "Timestamp", num |-> 0, text |-> <<>>]

\* line 75: operations.rename(columns=column_mapping), on a column name
Renamed(c) == IF c \in DOMAIN column_mapping THEN column_mapping[c] ELSE c

\* the old name of a column of the renamed table
Original(cols, n) == CHOOSE c \in cols : Renamed(c) = n

\* line 70: the required columns the sheet lacks
missing_columns(table) == DOMAIN column_mapping \ table.columns

\* lines 75-78: the table with its columns renamed and the column
\* "Data platezha" set to the dates of column "date" as Timestamps
load_operations(table) ==
    LET renamed == {Renamed(c) : c \in table.columns}
        newcols == renamed \cup {PayDateKey}
    IN  [columns |-> newcols,
         rows |-> [i \in 1 .. Len(table.rows) |->
                     [n \in newcols |->
                        IF n = PayDateKey THEN PyTimestamp
                        ELSE table.rows[i][Original(table.columns, n)]]]]

\* line 127: operations.to_dict("records"): one dict a row, keyed by column
to_dict_records(table) == table.rows

S_15_01_2024 == <<"1", "5", ".", "0", "1", ".", "2", "0", "2", "4">>

\* the sheets: the required columns, with or without columns named as
\* investment_bank reads them, and one sheet that lacks a required column
SheetColumns ==
    {DOMAIN column_mapping \cup x : x \in SUBSET {DateKey, AmountKey}}
    \cup {DOMAIN column_mapping \ {PayAmountKey}}

SheetRow(cols, pd, pa, od) ==
    [c \in cols |->
        CASE c = PayDateKey -> PyStr(pd)
          [] c = PayAmountKey -> PyFloat(pa)
          [] c = DateKey -> PyStr(od)
          [] c = AmountKey -> PyFloat(225)
          [] OTHER -> PyStr(S_abc)]

SheetRows(cols) ==
    {SheetRow(cols, pd, pa, od) :
        pd \in {S_2024_01_15, S_2024_02_16}, pa \in {225, -150},
        od \in {S_2024_01_15, S_15_01_2024}}

Sheets ==
    UNION {{[columns |-> cols, rows |-> rs] :
              rs \in UNION {[1 .. n -> SheetRows(cols)] : n \in 0 .. MaxRows}} :
           cols \in SheetColumns}

MainInit ==
    /\ operations \in Sheets
    /\ month \in {S_2024_01, S_2024_13}
    /\ limit \in {1, 2}
    /\ transactions = <<>>
    /\ pc = "main_load"
    /\ target_date = NoDate /\ idx = 0 /\ total_investment = 0
    /\ examined = <<>> /\ error = "" /\ result = <<>>
    /\ c_amount = 0 /\ c_limit = 1 /\ c_pc = "idle"
    /\ rounded_out = 0 /\ investment_out = 0
    /\ run = 1 /\ prev = NoOutcome /\ callers = <<>> /\ totals = <<>>
    /\ failed_check = "" /\ WIdle

\* main.py lines 109, 54-92: operations = load_operations(operations_file)
LoadOperations ==
    /\ pc = "main_load"
    /\ IF missing_columns(operations) # {}
       THEN /\ error' = "ValueError"
            /\ pc' = "raised"
            /\ UNCHANGED operations
       ELSE /\ operations' = load_operations(operations)
            /\ pc' = "main_steps"
            /\ UNCHANGED error
    /\ UNCHANGED <<month, transactions, limit, target_date, idx,
                   total_investment, examined, result>>
    /\ UNCHANGED cvars
    /\ UNCHANGED <<run, prev, callers, totals, wvars, failed_check>>

\* main.py lines 112-121: the dashboard and the category analysis, which
\* read files and the network: they go through or raise
EarlierSteps ==
    /\ pc = "main_steps"
    /\ \/ pc' = "main_invest" /\ UNCHANGED error
       \/ pc' = "raised" /\ error' = "Exception"
    /\ UNCHANGED <<month, transactions, limit, target_date, idx,
                   total_investment, examined, result>>
    /\ UNCHANGED cvars
    /\ UNCHANGED xvars

\* main.py lines 124-128: investment_bank(investment_month,
\* operations.to_dict("records"), rounding_limit)
CallInvestmentBank ==
    /\ pc = "main_invest"
    /\ transactions' = to_dict_records(operations)
    /\ pc' = "start"
    /\ UNCHANGED <<month, limit, target_date, idx, total_investment, examined,
                   error, result>>
    /\ UNCHANGED cvars
    /\ UNCHANGED xvars

MainNext == LoadOperations \/ EarlierSteps \/ CallInvestmentBank \/ Next

SpecMain == MainInit /\ [][MainNext]_vars

(***************************************************************************)
(* views.py: generate_report, which builds the dashboard report from the   *)
(* data file and the two APIs.  The module is taken as loaded: FILE_PATH   *)
(* is bound and the API key is set.                                        *)
(***************************************************************************)
\* line 101: .head(5)
TopCount == 5

\* line 172: stock_of_interest
stock_of_interest == <<"AAPL", "AMZN", "GOOGL", "MSFT", "TSLA">>

\* the keys of the report: those line 230-236 write and the one line 243 reads
GreetingKey == "greeting"
CardsKey == "cards"
TopTransactionsKey == "top_transactions"
CurrencyRatesKey == "currency_rates"
StocksPriceKey == "stocks_price"
StockPricesKey == "stock_prices"

\* lines 45-54 (the greetings transliterated: the module is ASCII)
get_greeting(d) ==
    IF 5 <= d.hour /\ d.hour < 12 THEN "Dobroe utro"
    ELSE IF 12 <= d.hour /\ d.hour < 17 THEN "Dobryi den"
    ELSE IF 17 <= d.hour /\ d.hour < 21 THEN "Dobryi vecher"
    ELSE "Dobroi nochi"

\* what a collaborator gives: the exception it raises ("" for none) and the
\* list it returns
Gives(l) == [raises |-> "", value |-> l]
Fails(e) == [raises |-> e, value |-> <<>>]

\* lines 57-89, over a data file f = [kind, cards, rows]: how the file
\* stands, how many different card numbers it holds, how many rows up to the
\* date asked for.  One entry per card; the entries stand here by number.
get_card_info(f) ==
    IF f.kind = "missing" THEN Fails("FileNotFoundError")
    ELSE IF f.kind = "not_excel" THEN Fails("RuntimeError")
    ELSE IF f.kind = "no_card_column" THEN Fails("KeyError")
    ELSE Gives([k \in 1 .. f.cards |-> k])

\* lines 92-115: the rows up to the date, largest amounts first, five at most
get_top_transaction(f) ==
    IF f.kind \in {"missing", "not_excel"} THEN Fails("FileNotFoundError")
    ELSE IF f.kind = "no_date_column" THEN Fails("ValueError")
    ELSE Gives([k \in 1 .. (IF f.rows < TopCount THEN f.rows ELSE TopCount) |-> k])

\* line 133: char_code in currencies_is_interest, where char_code is the
\* Element that valute.find gave and the set holds the strs "USD" and "EUR":
\* an Element equals no str
CodeOfInterest(code) == FALSE

\* lines 118-160, over the answer of the bank's API: a request that fails
\* and an answer that is no XML are logged and raised again; of an XML
\* answer the rates of the codes of interest are kept
get_currency_rate(answer) ==
    IF answer = "fail" THEN Fails("RequestException")
    ELSE IF answer = "bad_xml" THEN Fails("ParseError")
    ELSE Gives(SelectSeq(<<"USD", "EUR">>, CodeOfInterest))

\* lines 178-218: the loop over the symbols, from position k on; a request
\* that fails and an answer without a quote are passed over (continue)
RECURSIVE StockLoop(_, _, _)
StockLoop(answers, k, acc) ==
    IF k > Len(stock_of_interest) THEN acc
    ELSE IF answers[k] = "quote"
         THEN StockLoop(answers, k + 1, Append(acc, stock_of_interest[k]))
    ELSE StockLoop(answers, k + 1, acc)

\* lines 170-224
views_get_stock_prices(answers) == Gives(StockLoop(answers, 1, <<>>))

\* the strings passed: times of the four greetings, and strings that do
\* not match the format or name no day or hour
DatetimeStrings ==
    {<<"2", "0", "2", "3", "-", "0", "1", "-", "1", "5", " ", "1", "4", ":",
       "3", "0", ":", "0", "0">>,
     <<"2", "0", "2", "4", "-", "0", "1", "-", "0", "9", " ", "0", "4", ":",
       "0", "5", ":", "0", "6">>,
     <<"2", "0", "2", "4", "-", "0", "1", "-", "0", "9", " ", "8", ":", "0",
       "0", ":", "0", "0">>,
     <<"2", "0", "2", "4", "-", "0", "1", "-", "0", "9", " ", "1", "9", ":",
       "0", "0", ":", "0", "0">>,
     <<"i", "n", "v", "a", "l", "i", "d", "-", "d", "a", "t", "e", "-", "f",
       "o", "r", "m", "a", "t">>,
     <<"2", "0", "2", "4", "-", "0", "1", "-", "0", "9">>,
     <<"2", "0", "2", "4", "-", "0", "1", "-", "0", "9", " ", "2", "4", ":",
       "0", "0", ":", "0", "0">>,
     <<"2", "0", "2", "4", "-", "0", "2", "-", "3", "0", " ", "1", "0", ":",
       "0", "0", ":", "0", "0">>}

\* the data files: one that is missing, one that is no spreadsheet, two that
\* lack a column, and spreadsheets of no, one and six rows
DataFiles ==
    {[kind |-> k, cards |-> 0, rows |-> 0] :
        k \in {"missing", "not_excel", "no_card_column", "no_date_column"}}
    \cup {[kind |-> "ok", cards |-> 0, rows |-> 0],
          [kind |-> "ok", cards |-> 1, rows |-> 1],
          [kind |-> "ok", cards |-> 2, rows |-> TopCount + 1]}

RateAnswers == {"fail", "bad_xml", "xml"}
QuoteAnswers == {"fail", "no_quote", "quote"}

ViewInit ==
    /\ datetime_str \in DatetimeStrings
    /\ v_env \in [file : DataFiles, rates : RateAnswers,
                  quotes : [1 .. Len(stock_of_interest) -> QuoteAnswers]]
    /\ v_pc = "start"
    /\ input_datetime = NoDatetime
    /\ report = <<>>
    /\ v_error = ""
    /\ v_result = <<>>
    /\ CoreIdle /\ SIdle /\ RIdle

\* what generate_report leaves alone
v_others == <<ivars, cvars, yvars_core, failed_check, svars, rvars>>

\* the dict d with the value v under the key k
WithKey(d, k, v) ==
    [x \in (DOMAIN d) \cup {k} |-> IF x = k THEN v ELSE d[x]]

\* an exception of kind e leaves the try block of generate_report
ViewRaise(e) ==
    /\ v_error' = e
    /\ v_pc' = "except"
    /\ UNCHANGED <<datetime_str, v_env, input_datetime, report, v_result>>

\* an entry of the dict literal of lines 230-236: the collaborator's value
\* goes under the key, or its exception leaves the try block
ViewEntry(key, out, next_pc) ==
    /\ IF out.raises # ""
       THEN ViewRaise(out.raises)
       ELSE /\ report' = WithKey(report, key, out.value)
            /\ v_pc' = next_pc
            /\ UNCHANGED <<datetime_str, v_env, input_datetime, v_error,
                           v_result>>
    /\ UNCHANGED v_others

\* line 229: input_datetime = datetime.strptime(datetime_str, ...)
ParseDatetime ==
    /\ v_pc = "start"
    /\ LET parsed == strptime_YmdHMS(datetime_str)
       IN  IF parsed.ok
           THEN /\ input_datetime' = parsed
                /\ v_pc' = "greeting"
                /\ UNCHANGED <<datetime_str, v_env, report, v_error, v_result>>
           ELSE ViewRaise("ValueError")
    /\ UNCHANGED v_others

\* line 231: "greeting": get_greeting(input_datetime)
GetGreeting ==
    /\ v_pc = "greeting"
    /\ ViewEntry(GreetingKey, Gives(get_greeting(input_datetime)), "cards")

\* line 232: "cards": get_card_info()
GetCardInfo ==
    /\ v_pc = "cards"
    /\ ViewEntry(CardsKey, get_card_info(v_env.file), "top_transactions")

\* line 233: "top_transactions": get_top_transaction(input_datetime)
GetTopTransaction ==
    /\ v_pc = "top_transactions"
    /\ ViewEntry(TopTransactionsKey, get_top_transaction(v_env.file),
                 "currency_rates")

\* line 234: "currency_rates": get_currency_rate(input_datetime)
GetCurrencyRate ==
    /\ v_pc = "currency_rates"
    /\ ViewEntry(CurrencyRatesKey, get_currency_rate(v_env.rates), "stocks")

\* line 235: "stocks_price": get_stock_prices(input_datetime)
GetStockPrices ==
    /\ v_pc = "stocks"
    /\ ViewEntry(StocksPriceKey, views_get_stock_prices(v_env.quotes), "log")

\* the keys whose values the message of lines 238-244 reads
LoggedKeys == {CardsKey, TopTransactionsKey, CurrencyRatesKey, StockPricesKey}

\* lines 238-246: the message is formatted, which reads report[key] for each
\* of the logged keys (KeyError for a key the dict does not have), and the
\* message logged, the report is returned
LogAndReturn ==
    /\ v_pc = "log"
    /\ IF LoggedKeys \subseteq DOMAIN report
       THEN /\ v_result' = <<report>>
            /\ v_pc' = "returned"
            /\ UNCHANGED <<datetime_str, v_env, input_datetime, report, v_error>>
       ELSE ViewRaise("KeyError")
    /\ UNCHANGED v_others

\* lines 248-261: each handler logs and raises an exception of the kind it
\* caught (ValueError and FileNotFoundError anew with a message, any other
\* the same)
ViewHandle(e) == e

ReportExcept ==
    /\ v_pc = "except"
    /\ v_error' = ViewHandle(v_error)
    /\ v_pc' = "raised"
    /\ UNCHANGED <<datetime_str, v_env, input_datetime, report, v_result>>
    /\ UNCHANGED v_others

ViewNext ==
    \/ ParseDatetime \/ GetGreeting \/ GetCardInfo \/ GetTopTransaction
    \/ GetCurrencyRate \/ GetStockPrices \/ LogAndReturn \/ ReportExcept

SpecView == ViewInit /\ [][ViewNext]_vars

(***************************************************************************)
(* utils.py: get_stock_prices(stocks), one request per symbol.             *)
(***************************************************************************)
MaxStocks == 2        \* most symbols asked for in one call

Symbols == {"AAPL", "GOOGL"}

\* the prices of the answers, in ticks: 185.92 and 0.006
QuotedPrices == {92960, 3}

\* what the API answers to a request: the request fails (requests.get or
\* raise_for_status raises a RequestException), the JSON object has no
\* "Global Quote", it has one with a price, with no "05. price", or with a
\* price that is no numeral, or the JSON is null and no object
Responses ==
    {[kind |-> k, price |-> 0] :
        k \in {"fail", "no_quote", "no_price", "bad_price", "null"}}
    \cup {[kind |-> "quote", price |-> q] : q \in QuotedPrices}

StocksInit ==
    /\ stocks \in UNION {[1 .. n -> Symbols] : n \in 0 .. MaxStocks}
    /\ s_responses \in [1 .. Len(stocks) -> Responses]
    /\ s_pc = "start"
    /\ s_idx = 0
    /\ prices = <<>>
    /\ s_error = ""
    /\ s_result = <<>>
    /\ CoreIdle /\ VIdle /\ RIdle

\* what get_stock_prices leaves alone
s_others == <<ivars, cvars, yvars_core, failed_check, vvars, rvars>>

\* line 109: prices = []
InitPrices ==
    /\ s_pc = "start"
    /\ prices' = <<>>
    /\ s_idx' = 1
    /\ s_pc' = "loop"
    /\ UNCHANGED <<stocks, s_responses, s_error, s_result>>
    /\ UNCHANGED s_others

\* lines 117-118: the entry of a quoted symbol
PriceEntry(stock, price) == [stock |-> stock, price |-> round2(price)]

\* lines 110-118: the request for the next symbol and what is made of its
\* answer: the exception raised ("" for none) and the list after it
FetchOne(stock, response, collected) ==
    IF response.kind = "fail"
    THEN [raises |-> "RequestException", prices |-> collected]
    ELSE IF response.kind = "no_quote"
    THEN [raises |-> "", prices |-> collected]
    ELSE IF response.kind = "no_price"
    THEN [raises |-> "KeyError", prices |-> collected]
    ELSE IF response.kind = "bad_price"
    THEN [raises |-> "ValueError", prices |-> collected]
    ELSE IF response.kind = "null"
    THEN [raises |-> "TypeError", prices |-> collected]
    ELSE [raises |-> "",
          prices |-> Append(collected, PriceEntry(stock, response.price))]

\* lines 110-118: one pass of the loop; only a RequestException is caught
\* (line 121), every other exception leaves the function
FetchStock ==
    /\ s_pc = "loop"
    /\ s_idx <= Len(stocks)
    /\ LET out == FetchOne(stocks[s_idx], s_responses[s_idx], prices)
       IN  IF out.raises = ""
           THEN /\ prices' = out.prices
                /\ s_idx' = s_idx + 1
                /\ UNCHANGED <<s_pc, s_error>>
           ELSE /\ s_error' = out.raises
                /\ s_pc' = IF out.raises = "RequestException"
                           THEN "except" ELSE "raised"
                /\ UNCHANGED <<prices, s_idx>>
    /\ UNCHANGED <<stocks, s_responses, s_result>>
    /\ UNCHANGED s_others

\* line 120: return prices
ReturnPrices ==
    /\ s_pc = "loop"
    /\ s_idx > Len(stocks)
    /\ s_result' = <<prices>>
    /\ s_pc' = "returned"
    /\ UNCHANGED <<stocks, s_responses, s_idx, prices, s_error>>
    /\ UNCHANGED s_others

\* a handler that gives back the prices collected before the failure
StocksHandle_partial(collected) == collected

\* line 123: return []
StocksHandle(collected) == <<>>

\* lines 121-123: except requests.RequestException: log, return []
StocksExcept ==
    /\ s_pc = "except"
    /\ s_result' = <<StocksHandle(prices)>>
    /\ s_error' = ""
    /\ s_pc' = "returned"
    /\ UNCHANGED <<stocks, s_responses, s_idx, prices>>
    /\ UNCHANGED s_others

StocksNext == InitPrices \/ FetchStock \/ ReturnPrices \/ StocksExcept

SpecStocks == StocksInit /\ [][StocksNext]_vars

(***************************************************************************)
(* reports.py: save_report(filename), the decorator whose wrapper runs the *)
(* wrapped function and writes what it returned to a JSON file.            *)
(***************************************************************************)
\* str.endswith
endswith(s, suffix) ==
    /\ Len(s) >= Len(suffix)
    /\ SubSeq(s, Len(s) - Len(suffix) + 1, Len(s)) = suffix

DigitChars == <<"0", "1", "2", "3", "4", "5", "6", "7", "8", "9">>

\* the number n written with w digits, zeros in front
RECURSIVE Padded(_, _)
Padded(n, w) ==
    IF w = 0 THEN <<>>
    ELSE Append(Padded(n \div 10, w - 1), DigitChars[(n % 10) + 1])

\* line 43: datetime.now().strftime('%Y%m%d_%H%M%S')
strftime_stamp(d) ==
    Padded(d.year, 4) \o Padded(d.month, 2) \o Padded(d.day, 2) \o <<"_">>
    \o Padded(d.hour, 2) \o Padded(d.minute, 2) \o Padded(d.second, 2)

JsonSuffix == <<".", "j", "s", "o", "n">>

\* lines 41-46: the name of the report file
ReportName_always_suffix(fname, func_name, now) ==
    IF ~fname.given
    THEN func_name \o <<"_">> \o strftime_stamp(now) \o JsonSuffix
    ELSE fname.text \o JsonSuffix

ReportName(fname, func_name, now) ==
    IF ~fname.given
    THEN func_name \o <<"_">> \o strftime_stamp(now) \o JsonSuffix
    ELSE IF endswith(fname.text, JsonSuffix) THEN fname.text
    ELSE fname.text \o JsonSuffix

\* what a wrapped function returns: a dict, a DataFrame (its columns and its
\* rows), or a value json cannot write (a set)
PyDict(d) == [kind |-> "dict", items |-> <<d>>]
PyFrame(table) == [kind |-> "frame", items |-> <<table>>]
PySet == [kind |-> "set", items |-> <<>>]

\* lines 51-54: a DataFrame goes to the list of its rows, any other value
\* as it is
DataToSave(value) ==
    IF value.kind = "frame"
    THEN [kind |-> "list", items |-> to_dict_records(value.items[1])]
    ELSE value

\* line 58: json.dump(data_to_save, f): the text written, or TypeError for a
\* value json cannot write, which leaves the file opened and cut short
json_dump(data) ==
    IF data.kind = "dict"
    THEN [raises |-> "", text |-> [json |-> "object", members |-> data.items]]
    ELSE IF data.kind = "list"
    THEN [raises |-> "", text |-> [json |-> "array", members |-> data.items]]
    ELSE [raises |-> "TypeError", text |-> [json |-> "cut", members |-> <<>>]]

S_dummy_report == <<"d", "u", "m", "m", "y", "_", "r", "e", "p", "o", "r", "t">>
S_custom_report == <<"c", "u", "s", "t", "o", "m", "_", "r", "e", "p", "o", "r", "t">>

NoFilename == [given |-> FALSE, text |-> <<>>]
Filenames ==
    {NoFilename}
    \cup {[given |-> TRUE, text |-> t] :
            t \in {S_custom_report, S_custom_report \o JsonSuffix, JsonSuffix,
                   <<"j", "s", "o", "n">>}}

\* the wrapped functions: what a call of each gives
WrappedOutcomes ==
    {[raises |-> "", value |-> v] :
        v \in {PyDict([test |-> "data"]),
               PyFrame([columns |-> {"col1"}, rows |-> <<>>]),
               PyFrame([columns |-> {"col1"},
                        rows |-> <<[col1 |-> "a"], [col1 |-> "b"]>>]),
               PySet}}
    \cup {[raises |-> "ValueError", value |-> PySet]}

Clocks ==
    {[ok |-> TRUE, year |-> 2024, month |-> 1, day |-> 9, hour |-> 14,
      minute |-> 30, second |-> 0],
     [ok |-> TRUE, year |-> 2023, month |-> 12, day |-> 31, hour |-> 23,
      minute |-> 59, second |-> 59]}

\* a report written by an earlier call
OldText == [json |-> "object", members |-> <<[test |-> "old"]>>]

\* the file systems the wrapper may find: no reports directory, a file of
\* that name, the directory empty or holding an earlier report
NoFiles == [n \in {} |-> OldText]
FileSystems ==
    {[dir |-> d, files |-> NoFiles] : d \in {"absent", "file", "dir"}}
    \cup {[dir |-> "dir",
           files |-> [n \in {S_custom_report \o JsonSuffix} |-> OldText]]}

ReportInit ==
    /\ filename \in Filenames
    /\ w_env \in [func : [name : {S_dummy_report}, outcome : WrappedOutcomes],
                  now : Clocks, disk : {"ok", "read_only"}]
    /\ fs \in FileSystems
    /\ fs_before = fs
    /\ w_pc = "call"
    /\ w_value = <<>>
    /\ report_name = <<>>
    /\ w_error = ""
    /\ w_result = <<>>
    /\ CoreIdle /\ VIdle /\ SIdle

\* what the wrapper leaves alone
w_others == <<ivars, cvars, yvars_core, failed_check, vvars, svars>>

\* line 33: result = func(*args, **kwargs), outside the try block: what the
\* function raises leaves the wrapper at once
CallWrapped ==
    /\ w_pc = "call"
    /\ IF w_env.func.outcome.raises # ""
       THEN /\ w_error' = w_env.func.outcome.raises
            /\ w_pc' = "raised"
            /\ UNCHANGED w_value
       ELSE /\ w_value' = <<w_env.func.outcome.value>>
            /\ w_pc' = "mkdir"
            /\ UNCHANGED w_error
    /\ UNCHANGED <<filename, w_env, fs, fs_before, report_name, w_result>>
    /\ UNCHANGED w_others

\* an exception of kind e leaves the try block of lines 35-60
SaveRaise(e) ==
    /\ w_error' = e
    /\ w_pc' = "except"

\* lines 37-38: Path('reports').mkdir(exist_ok=True)
MakeReportsDir ==
    /\ w_pc = "mkdir"
    /\ IF fs.dir = "file"
       THEN SaveRaise("FileExistsError") /\ UNCHANGED fs
       ELSE IF fs.dir = "absent" /\ w_env.disk = "read_only"
       THEN SaveRaise("OSError") /\ UNCHANGED fs
       ELSE /\ fs' = [fs EXCEPT !.dir = "dir"]
            /\ w_pc' = "name"
            /\ UNCHANGED w_error
    /\ UNCHANGED <<filename, w_env, fs_before, w_value, report_name, w_result>>
    /\ UNCHANGED w_others

\* lines 41-48: report_name and file_path
NameReport ==
    /\ w_pc = "name"
    /\ report_name' = ReportName(filename, w_env.func.name, w_env.now)
    /\ w_pc' = "write"
    /\ UNCHANGED <<filename, w_env, fs, fs_before, w_value, w_error, w_result>>
    /\ UNCHANGED w_others

\* the files with the text t under the name n
WithFile(files, n, t) ==
    [x \in (DOMAIN files) \cup {n} |-> IF x = n THEN t ELSE files[x]]

\* lines 51-60: the value made ready, the file opened for writing (which
\* a disk that takes no writes refuses) and the JSON written to it
WriteReport ==
    /\ w_pc = "write"
    /\ IF w_env.disk = "read_only"
       THEN SaveRaise("OSError") /\ UNCHANGED fs
       ELSE LET out == json_dump(DataToSave(w_value[1]))
            IN  /\ fs' = [fs EXCEPT
                            !.files = WithFile(fs.files, report_name, out.text)]
                /\ IF out.raises # ""
                   THEN SaveRaise(out.raises)
                   ELSE w_pc' = "return" /\ UNCHANGED w_error
    /\ UNCHANGED <<filename, w_env, fs_before, w_value, report_name, w_result>>
    /\ UNCHANGED w_others

\* line 66: return result
ReturnResult ==
    /\ w_pc = "return"
    /\ w_result' = w_value
    /\ w_pc' = "returned"
    /\ UNCHANGED <<filename, w_env, fs, fs_before, w_value, report_name, w_error>>
    /\ UNCHANGED w_others

\* a handler that logs the failure and gives the result back all the same
SaveHandle_swallow(e, value) == [pc |-> "returned", result |-> <<value>>]

\* lines 62-64: except Exception: log, raise
SaveHandle(e, value) == [pc |-> "raised", result |-> <<>>]

SaveExcept ==
    /\ w_pc = "except"
    /\ LET h == SaveHandle(w_error, w_value[1])
       IN  /\ w_pc' = h.pc
           /\ w_result' = h.result
    /\ UNCHANGED <<filename, w_env, fs, fs_before, w_value, report_name, w_error>>
    /\ UNCHANGED w_others

ReportNext ==
    \/ CallWrapped \/ MakeReportsDir \/ NameReport \/ WriteReport
    \/ ReturnResult \/ SaveExcept

SpecReport == ReportInit /\ [][ReportNext]_vars

\* a call, once made, runs on: the interpreter takes every step of it
FairSpec == LiveInit /\ [][Next]_vars /\ WF_vars(Next)

(***************************************************************************)
(* Properties of the pure functions, under SpecCalc.                       *)
(***************************************************************************)
Rounded == c_pc \in {"rounded", "calculated"}
Calculated == c_pc = "calculated"
LimitTicks == c_limit * Unit

\* C1: for amount >= 0 and limit > 0, round_amount(amount, limit) is the
\* smallest multiple of limit that is >= amount: it is divisible by limit,
\* is >= amount, result - limit < amount, and it equals amount when amount
\* is an exact multiple of limit.
C1_RoundAmountSmallestMultiple ==
    (Rounded /\ c_amount >= 0) =>
        /\ rounded_out % LimitTicks = 0
        /\ rounded_out >= c_amount
        /\ rounded_out - LimitTicks < c_amount
        /\ (c_amount % LimitTicks = 0 => rounded_out = c_amount)

C1_Witness ==
    /\ Rounded /\ c_amount > 0 /\ c_limit = 2
    /\ c_amount % LimitTicks = 0
    /\ rounded_out = c_amount

\* C2 as claimed: for amount >= 0 and limit > 0,
\* calculate_investment(amount, limit) lies in [0, limit).
C2_Original_HalfOpenInterval ==
    (Calculated /\ c_amount >= 0) =>
        (investment_out >= 0 /\ investment_out < LimitTicks)

WholeCents(a) == a % TicksPerCent = 0

\* C2 amended: for amount >= 0 and limit > 0, calculate_investment(amount,
\* limit) lies in the closed interval [0, limit]; it is at most limit minus
\* one cent when amount is a whole number of cents, and it equals limit
\* exactly when amount is above a multiple of limit by less than half a cent.
C2_ClosedInterval ==
    (Calculated /\ c_amount >= 0) =>
        /\ investment_out >= 0
        /\ investment_out <= LimitTicks
        /\ (WholeCents(c_amount) => investment_out <= LimitTicks - TicksPerCent)
        /\ (investment_out = LimitTicks <=>
              (c_amount % LimitTicks > 0
               /\ 2 * (c_amount % LimitTicks) < TicksPerCent))

C2_Witness ==
    /\ Calculated /\ c_amount > LimitTicks /\ c_limit = 2
    /\ c_amount % LimitTicks = 1
    /\ investment_out = LimitTicks

\* C3: for every amount that is an exact multiple of limit (limit > 0),
\* calculate_investment(amount, limit) is exactly 0.
C3_ExactMultipleGivesZero ==
    (Calculated /\ c_amount % LimitTicks = 0) => investment_out = 0

C3_Witness ==
    /\ Calculated /\ c_amount = LimitTicks /\ c_limit = 3
    /\ investment_out = 0

\* the multiples of limit around the amounts of the model, and the smallest
\* of them that is >= a
Multiples(l) ==
    {k * l * Unit : k \in (-2) .. (MaxAmountUnits + 1)}
SmallestMultipleGE(a, l) ==
    CHOOSE m \in Multiples(l) :
        m >= a /\ \A n \in Multiples(l) : n >= a => m <= n

Dist(x, y) == IF x >= y THEN x - y ELSE y - x

\* the whole-cent values nearest to x
NearestCents(x) ==
    LET cents == {c * TicksPerCent :
                    c \in ((x \div TicksPerCent) - 1) .. ((x \div TicksPerCent) + 1)}
    IN  {c \in cents : \A d \in cents : Dist(c, x) <= Dist(d, x)}

\* C4: for every amount and limit > 0, calculate_investment(amount, limit)
\* is the gap between amount and the smallest multiple of limit >= amount,
\* rounded to the nearest cent; for an amount in whole cents it is exactly
\* that gap.
C4_GapRoundedToCents ==
    Calculated =>
        LET gap == SmallestMultipleGE(c_amount, c_limit) - c_amount
        IN  /\ investment_out \in NearestCents(gap)
            /\ (WholeCents(c_amount) => investment_out = gap)

C4_Witness ==
    /\ Calculated /\ c_limit = 2 /\ c_amount = Unit + 3
    /\ investment_out = Unit - TicksPerCent

(***************************************************************************)
(* Properties of investment_bank, under Spec.                              *)
(***************************************************************************)
ValidMonth == strptime_Ym(month).ok
Target == strptime_Ym(month)

\* the transaction has a date that parses and an amount that is a number
WellFormed(t) ==
    /\ DateKey \in DOMAIN t /\ t[DateKey].kind = "str"
    /\ strptime_Ymd(t[DateKey].text).ok
    /\ AmountKey \in DOMAIN t /\ float(t[AmountKey]).ok

HasDate(t) ==
    /\ DateKey \in DOMAIN t /\ t[DateKey].kind = "str"
    /\ strptime_Ymd(t[DateKey].text).ok

DateOf(t) == strptime_Ymd(t[DateKey].text)

HasAmount(t) == AmountKey \in DOMAIN t /\ float(t[AmountKey]).ok

AmountOf(t) == float(t[AmountKey]).value

\* the date of t is in the target month
InTarget(t) ==
    HasDate(t) /\ DateOf(t).year = Target.year /\ DateOf(t).month = Target.month

\* the sum of calculate_investment over the transactions of ts that are
\* dated in the target month and have an amount > 0
RECURSIVE ExpectedTotal(_)
ExpectedTotal(ts) ==
    IF ts = <<>> THEN 0
    ELSE LET t == Head(ts)
         IN  (IF InTarget(t) /\ HasAmount(t) /\ AmountOf(t) > 0
              THEN calculate_investment(AmountOf(t), limit)
              ELSE 0)
             + ExpectedTotal(Tail(ts))

AllWellFormed == \A k \in 1 .. Len(transactions) : WellFormed(transactions[k])

\* C5: for a valid month, a positive limit and well-formed transactions,
\* investment_bank returns, rounded to 2 decimals, the sum of
\* calculate_investment(amount, limit) over the transactions dated in the
\* target (year, month) with amount > 0, and nothing else.
C5_ReturnsSumOfContributions ==
    (ValidMonth /\ limit > 0 /\ AllWellFormed /\ pc \in {"returned", "except", "raised"}) =>
        /\ pc = "returned"
        /\ result = <<round2(ExpectedTotal(transactions))>>

\* two contributing transactions, one of them beside a filtered one
C5_Witness ==
    /\ pc = "returned" /\ limit = 2 /\ AllWellFormed
    /\ Len(transactions) = 2
    /\ \A k \in 1 .. 2 : InTarget(transactions[k]) /\ AmountOf(transactions[k]) > 0
    /\ AmountOf(transactions[1]) # AmountOf(transactions[2])
    /\ result = <<round2(ExpectedTotal(transactions))>>
    /\ result[1] > 0

\* the loop is about to take a transaction
AtTransaction == pc = "loop" /\ idx <= Len(transactions)

\* C6: a transaction whose date's (year, month) differs from the target
\* month, the same month number in another year included, never changes the
\* total, whatever its amount: the loop passes it without an error and
\* leaves the running total, and so the number returned, as it was.
C6_OutOfMonthLeavesTotal ==
    [][(AtTransaction /\ HasDate(transactions[idx]) /\ ~InTarget(transactions[idx]))
        => (total_investment' = total_investment /\ pc' = "loop" /\ idx' = idx + 1
            /\ result' = result)]_vars

\* a positive amount dated in the target's month number of another year has
\* been passed, after a transaction that did contribute
C6_Witness ==
    /\ pc = "loop" /\ idx = 3 /\ limit = 1
    /\ transactions[1][DateKey].text = S_2024_01_15
    /\ HasAmount(transactions[1]) /\ AmountOf(transactions[1]) = 225
    /\ transactions[2][DateKey].text = S_2023_01_15
    /\ HasAmount(transactions[2]) /\ AmountOf(transactions[2]) = 225
    /\ total_investment = Unit - 225

\* C7: a transaction whose amount is <= 0, negative or exactly zero, never
\* changes the total, even when dated inside the target month: the loop
\* passes it and leaves the running total as it was.
C7_NonPositiveLeavesTotal ==
    [][(AtTransaction /\ InTarget(transactions[idx]) /\ HasAmount(transactions[idx])
        /\ AmountOf(transactions[idx]) <= 0)
        => (total_investment' = total_investment /\ pc' = "loop" /\ idx' = idx + 1
            /\ result' = result)]_vars

\* a negative amount dated in the target month has been passed, after a
\* transaction that did contribute
C7_Witness ==
    /\ pc = "loop" /\ idx = 3 /\ limit = 1
    /\ InTarget(transactions[1])
    /\ HasAmount(transactions[1]) /\ AmountOf(transactions[1]) = 225
    /\ InTarget(transactions[2])
    /\ HasAmount(transactions[2]) /\ AmountOf(transactions[2]) < 0
    /\ total_investment = Unit - 225

\* C8: with a valid month, a positive limit and an empty transaction list
\* investment_bank returns 0.0 and raises no error.
C8_EmptyListReturnsZero ==
    (ValidMonth /\ limit > 0 /\ transactions = <<>>) =>
        /\ error = ""
        /\ pc \in {"start", "check_limit", "loop", "returned"}
        /\ (pc = "returned" => result = <<0>>)
        /\ (pc # "returned" => result = <<>>)

C8_Witness ==
    /\ transactions = <<>> /\ limit = 2 /\ month = S_2024_01
    /\ pc = "returned" /\ result = <<0>> /\ error = ""

\* C9: when the month does not parse as a year-month, investment_bank fails
\* with a ValueError that reaches the caller; it is never swallowed and no
\* number is returned, whatever the transactions and the limit.
C9_InvalidMonthRaises ==
    ~ValidMonth =>
        /\ pc \in {"start", "except", "raised"}
        /\ result = <<>>
        /\ examined = <<>>
        /\ (pc = "start" <=> error = "")
        /\ (pc # "start" => error = "ValueError")

C9_Witness ==
    /\ month = S_2024_13 /\ limit = 2 /\ Len(transactions) = 1
    /\ AllWellFormed /\ transactions[1][DateKey].text = S_2024_01_15
    /\ pc = "raised" /\ error = "ValueError" /\ result = <<>>

\* C10: when limit <= 0 and the month is valid, investment_bank fails with
\* a ValueError before any transaction is processed: for every transaction
\* list, the empty one and those with malformed records included, and no
\* transaction is read first.
C10_BadLimitRaisesBeforeLoop ==
    (ValidMonth /\ limit <= 0) =>
        /\ pc \in {"start", "check_limit", "except", "raised"}
        /\ examined = <<>>
        /\ result = <<>>
        /\ (pc \in {"start", "check_limit"} <=> error = "")
        /\ (pc \in {"except", "raised"} => error = "ValueError")

\* limit 0 and a first record without a date: the limit's error is raised
C10_Witness ==
    /\ ValidMonth /\ limit = 0 /\ Len(transactions) = 2
    /\ DateKey \notin DOMAIN transactions[1]
    /\ pc = "raised" /\ error = "ValueError" /\ examined = <<>>

\* the date of t is missing or does not parse
BadDate(t) == ~HasDate(t)

\* the amount of t is missing or is no number
BadAmount(t) == ~HasAmount(t)

\* the exceptions the handler of investment_bank takes for failures of its
\* inputs: except (ValueError, KeyError)
InputErrors == {"ValueError", "KeyError"}

Failed == pc \in {"except", "raised"}

C13_NoPartialTotal ==
    /\ (pc = "returned" =>
          /\ error = ""
          /\ Len(result) = 1
          /\ examined = [k \in 1 .. Len(transactions) |-> k])
    /\ (Failed => (result = <<>> /\ error # ""))
    /\ (pc \notin {"returned", "except", "raised"} => result = <<>>)

\* a record that contributed, then a malformed one: nothing is returned
C13_Witness ==
    /\ pc = "raised" /\ Len(transactions) = 2 /\ examined = <<1, 2>>
    /\ total_investment > 0
    /\ BadDate(transactions[2])
    /\ result = <<>>

\* C14 as claimed: every failure of investment_bank surfaces as one single
\* error kind (the ValueError raised for the month and the limit).
C14_SingleErrorKind ==
    Failed => error = "ValueError"

\* C15: the amount returned is >= 0, and the running total is >= 0 and
\* never decreases with a processed transaction.
C15_TotalNonNegativeMonotone ==
    /\ [](total_investment >= 0 /\ (result # <<>> => result[1] >= 0))
    /\ [][total_investment' >= total_investment]_vars

\* two transactions have each raised the total
C15_Witness ==
    /\ pc = "loop" /\ idx = 3 /\ limit = 2
    /\ InTarget(transactions[1]) /\ HasAmount(transactions[1])
    /\ AmountOf(transactions[1]) = 1
    /\ InTarget(transactions[2]) /\ HasAmount(transactions[2])
    /\ AmountOf(transactions[2]) = Unit
    /\ total_investment = 3 * Unit

\* C17: investment_bank leaves its inputs as they were: no step of a call,
\* successful or failing, changes the transaction list, a record of it, the
\* month or the limit.
C17_InputsUnchanged ==
    [][month' = month /\ transactions' = transactions /\ limit' = limit]_vars

\* a call that read two records, one of them with a str amount it did not
\* convert, has ended
C17_Witness ==
    /\ pc = "returned" /\ Len(transactions) = 2 /\ examined = <<1, 2>>
    /\ InTarget(transactions[1]) /\ HasAmount(transactions[1])
    /\ AmountOf(transactions[1]) = 225
    /\ AmountKey \in DOMAIN transactions[2]
    /\ transactions[2][AmountKey] = PyStr(S_abc)
    /\ result = <<Unit - 225>>

\* C19: every call on a finite list ends, with a result or a failure, and
\* the loop reads each transaction at most once, in list order.
C19_TerminatesOneRead ==
    /\ [](/\ Len(examined) <= Len(transactions)
          /\ \A k \in 1 .. Len(examined) : examined[k] = k)
    /\ <>(pc \in {"returned", "raised"})

C19_Witness ==
    /\ pc = "returned" /\ Len(transactions) = MaxTx
    /\ examined = [k \in 1 .. MaxTx |-> k]
    /\ \A k \in 1 .. MaxTx : InTarget(transactions[k])

\* C16: calling investment_bank again with the same month, transactions and
\* limit gives the same outcome, the same number or the same failure:
\* nothing of the first call is left for the second to see.
C16_SameOutcomeOnRerun ==
    (run = 2 /\ pc \in {"returned", "raised"}) =>
        Outcome(pc, error, result) = prev

\* a second call has returned the positive total of the first
C16_Witness ==
    /\ run = 2 /\ pc = "returned" /\ Len(transactions) = 2
    /\ prev.pc = "returned" /\ prev.result = result
    /\ result = <<2 * (Unit - 225)>>

\* the call of frame f run alone from its start to its end
RECURSIVE RunAlone(_, _)
RunAlone(f, total) ==
    IF f.pc \in {"returned", "raised"} THEN f
    ELSE LET out == StepOf(f, total) IN RunAlone(out.frame, out.total)

Alone(f) == RunAlone(Frame(f.month, f.transactions, f.limit), 0)

\* C18: when independent callers run investment_bank concurrently on lists
\* of their own, then under every interleaving each caller ends with the
\* outcome it would have had running alone, and while a call is in its loop
\* its running total is the total of its own transactions read so far.
C18_ConcurrentAsAlone ==
    \A c \in Callers :
        /\ callers[c].pc \in {"returned", "raised"} =>
             Outcome(callers[c].pc, callers[c].error, callers[c].result)
               = Outcome(Alone(callers[c]).pc, Alone(callers[c]).error,
                         Alone(callers[c]).result)
        /\ callers[c].pc = "loop" =>
             totals[TotalSlot(c)]
               = RunAlone(Frame(callers[c].month,
                                SubSeq(callers[c].transactions, 1,
                                       callers[c].idx - 1),
                                callers[c].limit), 0).result[1]

\* both callers have returned different positive totals
C18_Witness ==
    /\ callers[1].pc = "returned" /\ callers[2].pc = "returned"
    /\ callers[1].result = <<Unit - 225>>
    /\ callers[2].result = <<Unit>>

\* C20 as claimed: the records run_financial_analysis passes to
\* investment_bank carry the date and the amount under the keys and with
\* the types investment_bank reads, so that for a non-empty table and a
\* valid month the investment step does not fail on a missing field.
C20_LoadedRecordsFitInvestmentBank ==
    (Len(transactions) > 0 /\ ValidMonth /\ limit > 0
     /\ pc \in {"except", "raised", "returned"}) =>
        /\ pc = "returned"
        /\ \A k \in 1 .. Len(transactions) :
             /\ DateKey \in DOMAIN transactions[k]
             /\ transactions[k][DateKey].kind = "str"
             /\ AmountKey \in DOMAIN transactions[k]

(***************************************************************************)
(* The order of the validations of investment_bank, under Spec.            *)
(***************************************************************************)
\* C25: the month is validated before the limit and both before the first
\* transaction is read: the limit is checked and the loop entered only with
\* a parsed month, the loop reads only with a positive limit, an invalid
\* month with a limit <= 0 fails as an invalid month, and a call that one of
\* the two validations fails has read no transaction.
C25_ValidationOrder ==
    /\ pc \in {"check_limit", "loop", "returned"} => (ValidMonth /\ target_date.ok)
    /\ (pc \in {"loop", "returned"} \/ examined # <<>>) => limit > 0
    /\ (~ValidMonth /\ Failed) =>
          (failed_check = "month" /\ error = "ValueError" /\ examined = <<>>)
    /\ (ValidMonth /\ limit <= 0 /\ Failed) =>
          (failed_check = "limit" /\ error = "ValueError" /\ examined = <<>>)

C25_Witness ==
    /\ pc = "raised" /\ ~ValidMonth /\ limit <= 0
    /\ Len(transactions) = 2 /\ failed_check = "month" /\ examined = <<>>

(***************************************************************************)
(* The order of the transactions, under SpecPerm.                          *)
(***************************************************************************)
AmountsInWholeCents ==
    \A k \in 1 .. Len(transactions) :
        HasAmount(transactions[k]) =>
            AmountOf(transactions[k]) % TicksPerCent = 0

\* C26: for a valid month, a positive limit and well-formed transactions
\* with amounts in whole cents, the same transactions in any other order
\* give the same result: the call on the permuted list returns the number
\* the call on the list returned.
C26_OrderIndependent ==
    (run = 2 /\ pc \in {"returned", "raised"} /\ ValidMonth /\ limit > 0
     /\ AllWellFormed /\ AmountsInWholeCents) =>
        (pc = "returned" /\ Outcome(pc, error, result) = prev)

\* two spends of the month with different contributions, read in the other
\* order by the second call
C26_Witness ==
    /\ run = 2 /\ pc = "returned" /\ limit = 2 /\ Len(transactions) = 2
    /\ AllWellFormed /\ AmountsInWholeCents
    /\ AmountOf(transactions[1]) = Unit /\ AmountOf(transactions[2]) = 225
    /\ InTarget(transactions[1]) /\ InTarget(transactions[2])
    /\ result = <<(2 * Unit - 225) + Unit>>
    /\ prev.result = result

(***************************************************************************)
(* The dashboard report, under SpecView.                                   *)
(***************************************************************************)
ViewEnded == v_pc \in {"except", "raised", "returned"}

ValidDatetime == strptime_YmdHMS(datetime_str).ok

\* the data file is a spreadsheet with its columns and with rows
GoodFile == v_env.file.kind = "ok" /\ v_env.file.cards > 0 /\ v_env.file.rows > 0

DashboardKeys ==
    {GreetingKey, CardsKey, TopTransactionsKey, CurrencyRatesKey, StockPricesKey}

\* C21: for a well-formed datetime string (the data file in place and both
\* APIs answering) the report is returned as a dict whose keys are exactly
\* greeting, cards, top_transactions, currency_rates and stock_prices; for
\* a string that does not match the format the call raises ValueError.
C21_ReportKeysOrValueError ==
    /\ (ValidDatetime /\ GoodFile /\ v_env.rates = "xml"
        /\ (\A k \in DOMAIN v_env.quotes : v_env.quotes[k] = "quote")
        /\ ViewEnded) =>
          (v_pc = "returned" /\ DOMAIN v_result[1] = DashboardKeys)
    /\ (~ValidDatetime /\ ViewEnded) =>
          (v_pc # "returned" /\ v_error = "ValueError")

\* C22: when every request to the APIs fails or brings an unusable answer,
\* the report is still built: currency_rates and stock_prices are empty
\* lists and greeting, cards and top_transactions are there.
C22_ApiFailuresGiveEmptyLists ==
    (ValidDatetime /\ GoodFile /\ v_env.rates \in {"fail", "bad_xml"}
     /\ (\A k \in DOMAIN v_env.quotes : v_env.quotes[k] \in {"fail", "no_quote"})
     /\ ViewEnded) =>
        /\ v_pc = "returned"
        /\ {GreetingKey, CardsKey, TopTransactionsKey, CurrencyRatesKey,
            StockPricesKey} \subseteq DOMAIN v_result[1]
        /\ v_result[1][CurrencyRatesKey] = <<>>
        /\ v_result[1][StockPricesKey] = <<>>
        /\ v_result[1][CardsKey] # <<>>
        /\ v_result[1][TopTransactionsKey] # <<>>

(***************************************************************************)
(* utils.get_stock_prices, under SpecStocks.                               *)
(***************************************************************************)
StocksEnded == s_pc \in {"returned", "raised"}

\* the positions whose request has been made
Requested == 1 .. (IF s_idx < Len(stocks) THEN s_idx ELSE Len(stocks))

\* one entry for each quoted symbol of positions k .. Len(stocks), in order
RECURSIVE QuotedFrom(_)
QuotedFrom(k) ==
    IF k > Len(stocks) THEN <<>>
    ELSE IF s_responses[k].kind = "quote"
         THEN <<[stock |-> stocks[k], price |-> round2(s_responses[k].price)]>>
              \o QuotedFrom(k + 1)
    ELSE QuotedFrom(k + 1)

\* C23: utils.get_stock_prices never raises on a failed request: when the
\* request for a symbol fails the call returns the empty list, whatever was
\* collected for earlier symbols; an answer whose object has no "Global
\* Quote" is passed over without error; and when every answer is a quote or
\* lacks "Global Quote" the list returned has one entry per quoted symbol,
\* in the order the symbols were asked for.
C23_StockPricesFailSoft ==
    /\ s_pc = "raised" => s_error # "RequestException"
    /\ (StocksEnded /\ \E k \in Requested : s_responses[k].kind = "fail") =>
          (s_pc = "returned" /\ s_result = <<<<>>>>)
    /\ (StocksEnded
        /\ \A k \in 1 .. Len(stocks) :
              s_responses[k].kind \in {"quote", "no_quote"}) =>
          (s_pc = "returned" /\ s_result = <<QuotedFrom(1)>>)

\* the second request failed after the first had brought a price, and the
\* call returned the empty list
C23_Witness ==
    /\ s_pc = "returned" /\ Len(stocks) = 2
    /\ s_responses[1].kind = "quote" /\ s_responses[2].kind = "fail"
    /\ prices # <<>> /\ s_result = <<<<>>>>

(***************************************************************************)
(* The save_report wrapper, under SpecReport.                              *)
(***************************************************************************)
\* what the wrapped function returned, when it returned
FuncValue == w_env.func.outcome.value

\* the text holds the value v: a dict as an object of its items, a
\* DataFrame as the array of its rows
Holds(text, v) ==
    IF v.kind = "frame"
    THEN text.json = "array" /\ text.members = v.items[1].rows
    ELSE text.json = "object" /\ text.members = v.items

\* a timestamp: eight digits, "_", six digits
IsStamp(t) ==
    /\ Len(t) = 15 /\ t[9] = "_"
    /\ \A k \in (1 .. 15) \ {9} : t[k] \in Digits

\* C24: a function wrapped with save_report returns exactly the value that
\* the wrapped function returned, and a call that succeeds leaves one JSON
\* file in the reports directory, created if it was absent, holding that
\* value and leaving the other files as they were: the file is named
\* <filename>.json when a filename is given, .json being appended only when
\* the filename does not end with it, and <function name>_<timestamp>.json
\* otherwise.
C24_ReturnsValueAndSavesReport ==
    w_pc = "returned" =>
        /\ w_result = <<FuncValue>>
        /\ fs.dir = "dir"
        /\ DOMAIN fs.files = (DOMAIN fs_before.files) \cup {report_name}
        /\ \A n \in (DOMAIN fs_before.files) \ {report_name} :
              fs.files[n] = fs_before.files[n]
        /\ Holds(fs.files[report_name], FuncValue)
        /\ endswith(report_name, JsonSuffix)
        /\ (filename.given /\ endswith(filename.text, JsonSuffix)) =>
              report_name = filename.text
        /\ (filename.given /\ ~endswith(filename.text, JsonSuffix)) =>
              report_name = filename.text \o JsonSuffix
        /\ ~filename.given =>
              /\ Len(report_name) = Len(w_env.func.name) + 21
              /\ SubSeq(report_name, 1, Len(w_env.func.name) + 1)
                   = w_env.func.name \o <<"_">>
              /\ IsStamp(SubSeq(report_name, Len(w_env.func.name) + 2,
                                Len(w_env.func.name) + 16))

\* a DataFrame returned as it was, its rows saved under the name made of
\* the function's name and the time, in a directory that was not there
C24_Witness ==
    /\ w_pc = "returned" /\ ~filename.given /\ fs_before.dir = "absent"
    /\ FuncValue.kind = "frame" /\ Len(FuncValue.items[1].rows) = 2
    /\ w_result = <<FuncValue>>
    /\ report_name =
         S_dummy_report \o <<"_", "2", "0", "2", "4", "0", "1", "0", "9", "_", "1", "4", "3", "0", "0", "0", ".", "j", "s", "o", "n">>
    /\ fs.files[report_name].members = <<[col1 |-> "a"], [col1 |-> "b"]>>

\* the conditions under which the report cannot be written
WriteFails ==
    \/ fs_before.dir = "file"
    \/ w_env.disk = "read_only"
    \/ FuncValue.kind = "set"

\* C27: the wrapped function runs to its end before any report file is
\* created: until it has returned the file system is as the wrapper found
\* it, and when it raises its exception leaves the wrapper with no file
\* written; when writing the report fails the exception goes to the caller
\* and the result that was computed is not returned.
C27_RunsFirstAndWriteFailurePropagates ==
    /\ w_pc = "call" => fs = fs_before
    /\ (w_env.func.outcome.raises # "" /\ w_pc # "call") =>
          /\ w_pc = "raised" /\ w_error = w_env.func.outcome.raises
          /\ fs = fs_before /\ w_result = <<>>
    /\ w_error # "" => (w_pc \in {"except", "raised"} /\ w_result = <<>>)
    /\ (w_env.func.outcome.raises = "" /\ WriteFails) => w_pc # "returned"

\* the function returned a value json cannot write: the file was opened,
\* the TypeError went to the caller and the value was not returned
C27_Witness ==
    /\ w_pc = "raised" /\ w_value # <<>> /\ w_error = "TypeError"
    /\ report_name \in DOMAIN fs.files /\ w_result = <<>>
====
